---- MODULE Spec2Model ----
(***************************************************************************)
(* Latency benchmark receivers of the repository:                          *)
(*   benchmarks/kernel_receiver.c        the blocking (socket) variant     *)
(*   dpdk_example/udp_multicast_receiver.c  the polled-burst variant       *)
(* One running instance is one of the variants; `variant` is fixed by Init *)
(* and the actions of the other variant are disabled.                      *)
(*                                                                         *)
(* and the character driver char_driver_example/simple_chardev.c, whose    *)
(* read and write handlers are stepped by SpecCharSeq (one call at a time) *)
(* and SpecCharConc (a read and a write running at the same time).         *)
(*                                                                         *)
(* Widths are scaled: a byte holds ByteBits bits (8 in C) and a uint64_t   *)
(* is TsBytes bytes wide, so unsigned arithmetic is taken mod Modulus.     *)
(* Time is counted in ticks, TicksPerSec to the second.                    *)
(***************************************************************************)
EXTENDS Integers, Sequences, FiniteSets, TLC

\* ---- bounds of the model
ByteBits == 2
TicksPerSec == 1
MaxClock == 10
MaxPackets == 3
MaxSamples == 3

MaxBurst == 2
NumMbufs == 3

\* simple_chardev.c: #define BUFFER_SIZE 256, scaled
BUFFER_SIZE == 4

\* ---- program constants
TsBytes == 8
MinMsgLen == 32
EFAULT == 14

ByteBase == 2 ^ ByteBits
Modulus == ByteBase ^ TsBytes
U64(x) == x % Modulus

VARIABLES
    variant,            \* "blocking" | "burst": which receiver this instance is
    pc,                 \* position of main / lcore_main
    clock,              \* CLOCK_REALTIME, in ticks
    running,            \* kernel_receiver.c: static volatile int running
    stats,              \* kernel_receiver.c: struct stats
    n,                  \* result of recvfrom
    errno,
    buffer,             \* first TsBytes bytes of the datagram in buffer[]
    recv_time,
    last_report_time,
    intr,               \* a handled signal arrived while recvfrom was waiting
    sockfd_open,
    force_quit,         \* udp_multicast_receiver.c: static volatile bool force_quit
    rx_stats,           \* udp_multicast_receiver.c: static struct rx_stats stats
    bufs,               \* the burst: a sequence of [m, frame]
    nb_rx,
    i,
    start_cycles,
    end_cycles,
    pool,               \* mbufs of the pool that are free
    double_free,        \* an mbuf was freed while it was already in the pool
    rx_cycles,          \* the TSC when the burst was returned (not read by the code)
    port_started,
    out,                \* the report printed last
    n_final,            \* number of final reports printed
    exit_status,        \* -1 while the process lives
    fatal,              \* the receive loop was left by the break after perror
    div_by_zero,        \* an integer division by zero has been executed
    acq_after_cancel,   \* acquisition calls begun after the flag was set
    init_error,         \* the step of initialisation that failed, or "none"
    n_periodic,         \* number of periodic reports printed
    n_close,            \* number of times the socket or the port was closed
    fed,                \* SpecAcc only: the <<length, latency>> samples fed so far
    device_buffer,      \* simple_chardev.c: static char device_buffer[BUFFER_SIZE]
    buffer_size,        \* simple_chardev.c: static size_t buffer_size
    opened,             \* the device file is open
    offset,             \* *offset: the position of the open file
    concurrent,         \* a read and a write may run at the same time
    r_pc,               \* position of the thread in device_read
    read_len,           \* len of device_read
    r_seen,             \* the value of buffer_size device_read loaded last
    bytes_to_read,
    r_ret,              \* what device_read returned last
    r_out,              \* the bytes copy_to_user delivered last
    w_pc,               \* position of the thread in device_write
    write_len,          \* len of device_write
    user_data,          \* the user buffer of device_write
    bytes_to_write,
    w_ret               \* what device_write returned last

kvars == <<running, stats, n, errno, buffer, recv_time, last_report_time,
           intr, sockfd_open>>
gvars == <<variant, init_error, n_periodic, n_close, pc, clock, out, n_final,
           exit_status, fatal, div_by_zero, acq_after_cancel, fed>>
cvars == <<device_buffer, buffer_size, opened, offset, concurrent, r_pc,
           read_len, r_seen, bytes_to_read, r_ret, r_out, w_pc, write_len,
           user_data, bytes_to_write, w_ret>>
dvars == <<force_quit, rx_stats, bufs, nb_rx, i, start_cycles, end_cycles,
           pool, double_free, rx_cycles, port_started>>
vars == <<kvars, dvars, gvars, cvars>>

EINTR == "EINTR"
EBADF == "EBADF"

\* ---- inputs
ZeroBytes == [k \in 1..TsBytes |-> 0]
\* a datagram: its length and its first TsBytes bytes (most significant first)
Datagrams ==
    { [len |-> 0,  data |-> ZeroBytes],
      [len |-> 16, data |-> [ZeroBytes EXCEPT ![TsBytes] = 1]],
      [len |-> 32, data |-> ZeroBytes],
      [len |-> 40, data |-> [ZeroBytes EXCEPT ![TsBytes - 1] = 1]],
      [len |-> 40, data |-> [k \in 1..TsBytes |-> ByteBase - 1]] }

\* a raw frame: Ethernet type, IPv4 protocol, UDP payload length, first
\* TsBytes bytes of the UDP payload, and the length of the whole frame
EthHdrLen == 14
Ipv4HdrLen == 20
UdpHdrLen == 8
Frame(eth, proto, plen, data) ==
    [ether_type |-> eth, next_proto_id |-> proto, payload_len |-> plen,
     payload |-> data, pkt_len |-> EthHdrLen + Ipv4HdrLen + UdpHdrLen + plen]
Frames ==
    { Frame("ARP", "none", 0, ZeroBytes),
      Frame("IPV4", "TCP", 40, ZeroBytes),
      Frame("IPV4", "UDP", 16, ZeroBytes),
      Frame("IPV4", "UDP", 40, [ZeroBytes EXCEPT ![TsBytes - 1] = 1]) }

Mbufs == 1..NumMbufs

rx_stats_zero ==
    [packets |-> 0, bytes |-> 0, errors |-> 0, total_latency_cycles |-> 0]

struct_stats_zero ==
    [packets_received |-> 0, bytes_received |-> 0, total_latency_ns |-> 0,
     min_latency_ns |-> 0, max_latency_ns |-> 0]

RECURSIVE ExtractLoop(_, _, _)
ExtractLoop(data, k, acc) ==
    IF k > TsBytes THEN acc
    ELSE ExtractLoop(data, k + 1, U64(acc * ByteBase) + data[k])

\* variant for mutation: the bytes are read least significant first
RECURSIVE ExtractLoopLE(_, _, _)
ExtractLoopLE(data, k, acc) ==
    IF k < 1 THEN acc
    ELSE ExtractLoopLE(data, k - 1, U64(acc * ByteBase) + data[k])
send_time_ns_little_endian(data) == ExtractLoopLE(data, TsBytes, 0)

send_time_ns(data) == ExtractLoop(data, 1, 0)

latency_ns(data, recv_time_ns) == U64(recv_time_ns - send_time_ns(data))

\* variant for mutation: min is not seeded by the first sample
update_stats_min_unseeded(st, len, latency) ==
    [packets_received |-> U64(st.packets_received + 1),
     bytes_received   |-> U64(st.bytes_received + len),
     total_latency_ns |-> U64(st.total_latency_ns + latency),
     min_latency_ns   |-> IF latency < st.min_latency_ns
                          THEN latency ELSE st.min_latency_ns,
     max_latency_ns   |-> IF latency > st.max_latency_ns
                          THEN latency ELSE st.max_latency_ns]

\* variant for mutation: max is overwritten by every sample
update_stats_max_overwritten(st, len, latency) ==
    LET p == U64(st.packets_received + 1)
    IN  [packets_received |-> p,
         bytes_received   |-> U64(st.bytes_received + len),
         total_latency_ns |-> U64(st.total_latency_ns + latency),
         min_latency_ns   |-> IF p = 1 \/ latency < st.min_latency_ns
                              THEN latency ELSE st.min_latency_ns,
         max_latency_ns   |-> latency]

update_stats(st, len, latency) ==
    LET p == U64(st.packets_received + 1)
    IN  [packets_received |-> p,
         bytes_received   |-> U64(st.bytes_received + len),
         total_latency_ns |-> U64(st.total_latency_ns + latency),
         min_latency_ns   |-> IF p = 1 \/ latency < st.min_latency_ns
                              THEN latency ELSE st.min_latency_ns,
         max_latency_ns   |-> IF latency > st.max_latency_ns
                              THEN latency ELSE st.max_latency_ns]

\* variant for mutation: the length check is missing
process_order_book_unchecked(data, len, recv_time_ns, st) ==
    update_stats(st, len, latency_ns(data, recv_time_ns))

process_order_book(data, len, recv_time_ns, st) ==
    IF len < MinMsgLen THEN st
    ELSE update_stats(st, len, latency_ns(data, recv_time_ns))

report_interval_ns == 5 * TicksPerSec

\* the time that passes while the process waits: nothing, one tick short of
\* the report interval, or the interval
Elapsed == {0, report_interval_ns - 1, report_interval_ns}
TimePasses == {t \in {clock + e : e \in Elapsed} : t <= MaxClock}

\* the time that passes over a poll that finds the queue empty: nothing, or
\* the report interval of the blocking receiver
PollTimePasses == {t \in {clock, clock + report_interval_ns} : t <= MaxClock}

\* the value a read of the clock returns
get_timestamp_ns == clock

\* simple_chardev.c: the statics before the first call, no file open
chardev_loaded ==
    /\ device_buffer = [k \in 1..BUFFER_SIZE |-> 0]
    /\ buffer_size = 0
    /\ opened = FALSE
    /\ offset = 0
    /\ r_pc = "idle" /\ read_len = 0 /\ r_seen = 0 /\ bytes_to_read = 0
    /\ r_ret = 0 /\ r_out = <<>>
    /\ w_pc = "idle" /\ write_len = 0 /\ user_data = <<>>
    /\ bytes_to_write = 0 /\ w_ret = 0

Boot(v) ==
    /\ variant = v
    /\ chardev_loaded
    /\ fed = <<>>
    /\ pc = "init"
    /\ init_error = "none"
    /\ n_periodic = 0
    /\ n_close = 0
    /\ clock = 0
    /\ running = 1
    /\ stats = struct_stats_zero
    /\ n = 0
    /\ errno = "none"
    /\ buffer = ZeroBytes
    /\ recv_time = 0
    /\ last_report_time = 0
    /\ intr = FALSE
    /\ sockfd_open = FALSE
    /\ force_quit = FALSE
    /\ rx_stats = rx_stats_zero
    /\ bufs = <<>>
    /\ nb_rx = 0
    /\ i = 0
    /\ start_cycles = 0
    /\ end_cycles = 0
    /\ pool = Mbufs
    /\ double_free = FALSE
    /\ rx_cycles = 0
    /\ port_started = FALSE
    /\ out = [kind |-> "none"]
    /\ n_final = 0
    /\ exit_status = -1
    /\ fatal = FALSE
    /\ div_by_zero = FALSE
    /\ acq_after_cancel = 0

Init == concurrent = FALSE /\ \E v \in {"blocking", "burst"} : Boot(v)

\* ---- kernel_receiver.c

Alive == pc \notin {"done", "crashed", "init_failed"}

\* variant for mutation: a failed multicast join does not end main
pc_after_init_join_ignored(failed) ==
    IF failed \in {"none", "setsockopt IP_ADD_MEMBERSHIP"}
    THEN "loop" ELSE "init_failed"

\* where main goes after initialisation: every failed step returns 1 (or
\* calls rte_exit(EXIT_FAILURE)) before the loop
pc_after_init(failed) == IF failed = "none" THEN "loop" ELSE "init_failed"

\* the steps of main of the blocking receiver that can fail; all but the first
\* close the socket before returning 1
SocketInitSteps ==
    {"socket", "setsockopt SO_REUSEADDR", "bind", "setsockopt IP_ADD_MEMBERSHIP"}

\* socket, SO_REUSEADDR, bind, multicast join, last_report_time = get_timestamp_ns()
main_initialize ==
    /\ variant = "blocking"
    /\ pc = "init"
    /\ \E failed \in SocketInitSteps \cup {"none"} :
         /\ init_error' = failed
         /\ pc' = pc_after_init(failed)
         /\ exit_status' = IF failed = "none" THEN exit_status ELSE 1
         /\ sockfd_open' = (failed = "none")
         /\ n_close' = IF failed \in SocketInitSteps \ {"socket"} THEN 1 ELSE 0
    /\ last_report_time' = clock
    /\ UNCHANGED <<running, stats, n, errno, buffer, recv_time, intr, dvars,
                   variant, cvars, n_periodic, clock, out, n_final, fatal,
                   div_by_zero, acq_after_cancel, fed>>

\* signal_handler, run asynchronously on SIGINT or SIGTERM.  A signal that
\* arrives while recvfrom waits either makes it fail with EINTR or, when the
\* handler was installed with restart semantics, lets the wait go on.
signal_handler ==
    /\ variant = "blocking"
    /\ Alive
    /\ running' = 0
    /\ \E interrupts \in BOOLEAN :
         intr' = (intr \/ (pc = "wait" /\ interrupts))
    /\ UNCHANGED <<stats, n, errno, buffer, recv_time, last_report_time,
                   sockfd_open, dvars, gvars, cvars>>

\* while (running)
LoopCheck ==
    /\ variant = "blocking"
    /\ pc = "loop"
    /\ pc' = IF running # 0 THEN "call" ELSE "final"
    /\ UNCHANGED <<kvars, dvars, variant, cvars, init_error, n_periodic,
                   n_close, clock, out, n_final, exit_status, fatal,
                   div_by_zero, acq_after_cancel, fed>>

\* recvfrom is entered and waits
CallRecvfrom ==
    /\ variant = "blocking"
    /\ pc = "call"
    /\ pc' = "wait"
    /\ acq_after_cancel' =
           IF running = 0 /\ acq_after_cancel < 2
           THEN acq_after_cancel + 1 ELSE acq_after_cancel
    /\ UNCHANGED <<kvars, dvars, variant, cvars, init_error, n_periodic,
                   n_close, clock, out, n_final, exit_status, fatal,
                   div_by_zero, fed>>

\* recvfrom returns a datagram
RecvData ==
    /\ variant = "blocking"
    /\ pc = "wait"
    /\ \E d \in Datagrams :
         /\ d.len >= MinMsgLen => stats.packets_received < MaxPackets
         /\ n' = d.len
         /\ buffer' = [k \in 1..TsBytes |->
                          IF k <= d.len THEN d.data[k] ELSE buffer[k]]
    /\ intr' = FALSE
    /\ pc' = "ret"
    /\ clock' \in TimePasses
    /\ UNCHANGED <<running, stats, errno, recv_time, last_report_time,
                   sockfd_open, dvars, variant, cvars, init_error, n_periodic,
                      n_close, out, n_final, exit_status,
                   fatal, div_by_zero, acq_after_cancel, fed>>

\* recvfrom returns -1 with errno EINTR
RecvInterrupted ==
    /\ variant = "blocking"
    /\ pc = "wait"
    /\ intr
    /\ n' = -1
    /\ errno' = EINTR
    /\ intr' = FALSE
    /\ pc' = "ret"
    /\ clock' \in TimePasses
    /\ UNCHANGED <<running, stats, buffer, recv_time, last_report_time,
                   sockfd_open, dvars, variant, cvars, init_error, n_periodic,
                      n_close, out, n_final, exit_status,
                   fatal, div_by_zero, acq_after_cancel, fed>>

\* recvfrom returns -1 with another errno
RecvFailed ==
    /\ variant = "blocking"
    /\ pc = "wait"
    /\ n' = -1
    /\ errno' = EBADF
    /\ intr' = FALSE
    /\ pc' = "ret"
    /\ clock' \in TimePasses
    /\ UNCHANGED <<running, stats, buffer, recv_time, last_report_time,
                   sockfd_open, dvars, variant, cvars, init_error, n_periodic,
                      n_close, out, n_final, exit_status,
                   fatal, div_by_zero, acq_after_cancel, fed>>

\* variant for mutation: no failure of recvfrom is retried
is_interrupted_never(e) == FALSE

\* errno == EINTR
is_interrupted(e) == e = EINTR

\* if (n < 0) { if (errno == EINTR) continue; ...
ContinueOnEintr ==
    /\ variant = "blocking"
    /\ pc = "ret"
    /\ n < 0
    /\ is_interrupted(errno)
    /\ pc' = "loop"
    /\ UNCHANGED <<kvars, dvars, variant, cvars, init_error, n_periodic,
                   n_close, clock, out, n_final, exit_status, fatal,
                   div_by_zero, acq_after_cancel, fed>>

\* ... perror("recvfrom"); break; }
BreakOnError ==
    /\ variant = "blocking"
    /\ pc = "ret"
    /\ n < 0
    /\ ~is_interrupted(errno)
    /\ fatal' = TRUE
    /\ pc' = "final"
    /\ UNCHANGED <<kvars, dvars, variant, cvars, init_error, n_periodic,
                   n_close, clock, out, n_final, exit_status,
                   div_by_zero, acq_after_cancel, fed>>

\* variant for mutation: the report waits until the interval is exceeded
report_due_strict(now, last) == U64(now - last) > report_interval_ns

\* if (recv_time - last_report_time >= report_interval_ns)
report_due(now, last) == U64(now - last) >= report_interval_ns

periodic_report(st, avg) ==
    [kind |-> "periodic", packets |-> st.packets_received, bytes |-> -1,
     avg |-> avg, min |-> st.min_latency_ns, max |-> st.max_latency_ns]

\* recv_time = get_timestamp_ns(); process_order_book(...); periodic report.
\* The quotient total_latency_ns / packets_received is unguarded: with a zero
\* divisor the process is killed by SIGFPE or goes on with some quotient.
ProcessDatagram ==
    /\ variant = "blocking"
    /\ pc = "ret"
    /\ n >= 0
    /\ LET t == get_timestamp_ns
           st == process_order_book(buffer, n, t, stats) IN
       /\ recv_time' = t
       /\ stats' = st
       /\ IF report_due(t, last_report_time)
          THEN IF st.packets_received = 0
               THEN /\ div_by_zero' = TRUE
                    /\ \/ /\ pc' = "crashed"
                          /\ exit_status' = 128 + 8
                          /\ UNCHANGED <<out, last_report_time, n_periodic>>
                       \/ /\ \E q \in {0, Modulus - 1} :
                               out' = periodic_report(st, q)
                          /\ n_periodic' = n_periodic + 1
                          /\ last_report_time' = t
                          /\ pc' = "loop"
                          /\ UNCHANGED exit_status
               ELSE /\ out' = periodic_report(st,
                                 st.total_latency_ns \div st.packets_received)
                    /\ n_periodic' = n_periodic + 1
                    /\ last_report_time' = t
                    /\ pc' = "loop"
                    /\ UNCHANGED <<div_by_zero, exit_status>>
          ELSE /\ pc' = "loop"
               /\ UNCHANGED <<out, last_report_time, n_periodic, div_by_zero,
                              exit_status>>
    /\ UNCHANGED <<running, n, errno, buffer, intr, sockfd_open, dvars,
                   variant, cvars,
                   init_error, n_close, clock, n_final, fatal,
                   acq_after_cancel, fed>>

\* variant for mutation: the final report shows counters that were reset
final_report_reset(st) ==
    [kind |-> "final", packets |-> 0, bytes |-> 0, avg |-> -1, min |-> -1,
     max |-> -1]

final_report(st) ==
    IF st.packets_received > 0
    THEN [kind |-> "final", packets |-> st.packets_received,
          bytes |-> st.bytes_received,
          avg |-> st.total_latency_ns \div st.packets_received,
          min |-> st.min_latency_ns, max |-> st.max_latency_ns]
    ELSE [kind |-> "final", packets |-> st.packets_received,
          bytes |-> st.bytes_received, avg |-> -1, min |-> -1, max |-> -1]

\* final statistics, close(sockfd), return 0
FinalStatistics ==
    /\ variant = "blocking"
    /\ pc = "final"
    /\ out' = final_report(stats)
    /\ n_final' = n_final + 1
    /\ sockfd_open' = FALSE
    /\ n_close' = n_close + 1
    /\ exit_status' = 0
    /\ pc' = "done"
    /\ UNCHANGED <<running, stats, n, errno, buffer, recv_time,
                   last_report_time, intr, dvars, variant, cvars, init_error,
                      n_periodic, clock, fatal, div_by_zero,
                   acq_after_cancel, fed>>

NextBlocking ==
    \/ main_initialize
    \/ signal_handler
    \/ LoopCheck
    \/ CallRecvfrom
    \/ RecvData
    \/ RecvInterrupted
    \/ RecvFailed
    \/ ContinueOnEintr
    \/ BreakOnError
    \/ ProcessDatagram
    \/ FinalStatistics

\* ---- udp_multicast_receiver.c

\* signal_handler of the polled-burst receiver (only SIGINT and SIGTERM are
\* registered)
burst_signal_handler ==
    /\ variant = "burst"
    /\ Alive
    /\ force_quit' = TRUE
    /\ UNCHANGED <<kvars, rx_stats, bufs, nb_rx, i, start_cycles, end_cycles,
                   pool, double_free, rx_cycles, port_started, gvars, cvars>>

\* the steps of main of the polled-burst receiver that end in
\* rte_exit(EXIT_FAILURE)
EalInitSteps ==
    {"rte_eal_init", "rte_eth_dev_count_avail", "rte_pktmbuf_pool_create",
     "port_init"}

\* rte_eal_init, port count, mbuf pool, port_init
burst_main_initialize ==
    /\ variant = "burst"
    /\ pc = "init"
    /\ \E failed \in EalInitSteps \cup {"none"} :
         /\ init_error' = failed
         /\ pc' = pc_after_init(failed)
         /\ exit_status' = IF failed = "none" THEN exit_status ELSE 1
         /\ port_started' = (failed = "none")
    /\ UNCHANGED <<kvars, force_quit, rx_stats, bufs, nb_rx, i, start_cycles,
                   end_cycles, pool, double_free, rx_cycles, variant, cvars,
                   n_periodic, n_close, clock, out, n_final, fatal,
                   div_by_zero, acq_after_cancel, fed>>

\* while (!force_quit)
lcore_main_check ==
    /\ variant = "burst"
    /\ pc = "loop"
    /\ pc' = IF ~force_quit THEN "burst" ELSE "stats"
    /\ UNCHANGED <<kvars, dvars, variant, cvars, init_error, n_periodic,
                   n_close, clock, out, n_final, exit_status,
                   fatal, div_by_zero, acq_after_cancel, fed>>

\* the mbufs rte_eth_rx_burst hands out: the k lowest free ones
RECURSIVE TakeMbufs(_, _)
TakeMbufs(free, k) ==
    IF k = 0 \/ free = {} THEN <<>>
    ELSE LET m == CHOOSE x \in free : \A y \in free : x <= y
         IN  <<m>> \o TakeMbufs(free \ {m}, k - 1)

is_udp(f) == f.ether_type = "IPV4" /\ f.next_proto_id = "UDP"

RECURSIVE CountUdp(_)
CountUdp(fs) ==
    IF fs = <<>> THEN 0
    ELSE (IF is_udp(Head(fs)) THEN 1 ELSE 0) + CountUdp(Tail(fs))

\* variant for mutation: an empty burst ends the loop
after_rx_burst_break_on_empty(k) == IF k = 0 THEN "stats" ELSE "proc"

\* where lcore_main goes with a burst of k frames: if (nb_rx == 0) continue;
after_rx_burst(k) == IF k = 0 THEN "loop" ELSE "proc"

\* nb_rx = rte_eth_rx_burst(port, 0, bufs, BURST_SIZE); if (nb_rx == 0) continue;
rte_eth_rx_burst ==
    /\ variant = "burst"
    /\ pc = "burst"
    /\ \E k \in 0..MaxBurst :
       \E fs \in [1..k -> Frames] :
         LET ms == TakeMbufs(pool, k) IN
         /\ Len(ms) = k
         /\ rx_stats.packets + CountUdp(fs) <= MaxPackets
         /\ bufs' = [j \in 1..k |-> [m |-> ms[j], frame |-> fs[j]]]
         /\ pool' = pool \ {ms[j] : j \in 1..k}
         /\ nb_rx' = k
         /\ i' = IF k = 0 THEN i ELSE 0
         /\ pc' = after_rx_burst(k)
         /\ clock' \in IF k = 0 THEN PollTimePasses ELSE {clock}
    /\ \E c \in {0, Modulus - 1} : rx_cycles' = c
    /\ acq_after_cancel' =
           IF force_quit /\ acq_after_cancel < 2
           THEN acq_after_cancel + 1 ELSE acq_after_cancel
    /\ UNCHANGED <<kvars, force_quit, rx_stats, start_cycles, end_cycles,
                   double_free, port_started, variant, cvars, init_error,
                      n_periodic, n_close, out, n_final,
                   exit_status, fatal, div_by_zero, fed>>

update_rx_stats(st, f, cycles) ==
    [st EXCEPT !.packets = U64(@ + 1),
               !.bytes = U64(@ + f.pkt_len),
               !.total_latency_cycles = U64(@ + cycles)]

\* variant for mutation: the IPv4 protocol is not checked
count_frame_any_ipv4(st, f, start, end) ==
    IF f.ether_type = "IPV4"
    THEN update_rx_stats(st, f, U64(end - start))
    ELSE st

\* the statistics after the frame is parsed: only an IPv4/UDP frame is counted
count_frame(st, f, start, end) ==
    IF f.ether_type = "IPV4"
    THEN IF f.next_proto_id = "UDP"
         THEN update_rx_stats(st, f, U64(end - start))
         ELSE st
    ELSE st

\* the free mbufs of the pool after rte_pktmbuf_free(m)
rte_pktmbuf_free(free, m) == free \cup {m}

\* variant for mutation: the mbuf is freed only inside the UDP branch
freed_mbufs_udp_only(f, m) == IF is_udp(f) THEN <<m>> ELSE <<>>

\* the mbufs the loop body frees for frame f held in mbuf m: one, always
freed_mbufs(f, m) == <<m>>

RECURSIVE FreeAll(_, _)
FreeAll(free, ms) ==
    IF ms = <<>> THEN free ELSE FreeAll(rte_pktmbuf_free(free, Head(ms)), Tail(ms))

RECURSIVE AnyDoubleFree(_, _)
AnyDoubleFree(free, ms) ==
    IF ms = <<>> THEN FALSE
    ELSE Head(ms) \in free \/ AnyDoubleFree(free \cup {Head(ms)}, Tail(ms))

\* one pass of for (i = 0; i < nb_rx; i++) { ... rte_pktmbuf_free(m); }
lcore_main_frame ==
    /\ variant = "burst"
    /\ pc = "proc"
    /\ i < nb_rx
    /\ LET b == bufs[i + 1]
           ms == freed_mbufs(b.frame, b.m) IN
       /\ \E s \in {rx_cycles, U64(rx_cycles + 1)} :
          \E e \in {U64(s + 1), U64(s + 2)} :
            /\ start_cycles' = s
            /\ end_cycles' = IF is_udp(b.frame) THEN e ELSE end_cycles
            /\ rx_stats' = count_frame(rx_stats, b.frame, s, e)
       /\ pool' = FreeAll(pool, ms)
       /\ double_free' = (double_free \/ AnyDoubleFree(pool, ms))
       /\ i' = i + 1
       /\ pc' = IF i + 1 < nb_rx THEN "proc" ELSE "loop"
    /\ UNCHANGED <<kvars, force_quit, bufs, nb_rx, rx_cycles, port_started,
                   variant, cvars, init_error, n_periodic, n_close, clock,
                      out, n_final, exit_status, fatal,
                   div_by_zero, acq_after_cancel, fed>>

TscHz == {TicksPerSec, 2 * TicksPerSec}

\* print_stats: the average is a floating-point quotient, taken only when
\* packets > 0 (its integer part is kept here)
print_stats(st, hz) ==
    [kind |-> "final", packets |-> st.packets, bytes |-> st.bytes,
     errors |-> st.errors,
     avg |-> IF st.packets > 0
             THEN LET num == U64(st.total_latency_cycles * TicksPerSec)
                      den == U64(hz * st.packets)
                  IN  IF den = 0 THEN -1 ELSE num \div den
             ELSE 0]

\* main after lcore_main returned: print_stats(), stop and close the port,
\* rte_eal_cleanup(), return 0
main_shutdown ==
    /\ variant = "burst"
    /\ pc = "stats"
    /\ \E hz \in TscHz : out' = print_stats(rx_stats, hz)
    /\ n_final' = n_final + 1
    /\ port_started' = FALSE
    /\ n_close' = n_close + 1
    /\ exit_status' = 0
    /\ pc' = "done"
    /\ UNCHANGED <<kvars, force_quit, rx_stats, bufs, nb_rx, i, start_cycles,
                   end_cycles, pool, double_free, rx_cycles, variant, cvars,
                      init_error, n_periodic, clock,
                   fatal, div_by_zero, acq_after_cancel, fed>>

NextBurst ==
    \/ burst_main_initialize
    \/ burst_signal_handler
    \/ lcore_main_check
    \/ rte_eth_rx_burst
    \/ lcore_main_frame
    \/ main_shutdown

Next == NextBlocking \/ NextBurst

\* ---- the accumulator alone: process_order_book applied to chosen samples

\* the sender's side of the wire format: v in TsBytes bytes, most significant first
EncodeTimestamp(v) ==
    [k \in 1..TsBytes |-> (v \div (ByteBase ^ (TsBytes - k))) % ByteBase]

SampleLengths == {32, 40}
SampleLatencies == {0, 10, 50, 90, Modulus - 1}
SampleRecvTimes == {0, 100}

\* one valid message with a chosen length and latency is handed to
\* process_order_book
Feed ==
    /\ Len(fed) < MaxSamples
    /\ \E len \in SampleLengths, lat \in SampleLatencies, t \in SampleRecvTimes :
         /\ stats' = process_order_book(EncodeTimestamp(U64(t - lat)), len, t, stats)
         /\ fed' = Append(fed, <<len, lat>>)
    /\ UNCHANGED <<running, n, errno, buffer, recv_time, last_report_time, intr,
                   sockfd_open, dvars, variant, cvars, init_error, n_periodic,
                      n_close, pc, clock, out, n_final,
                   exit_status, fatal, div_by_zero, acq_after_cancel>>

NextAcc == Feed

InitAcc == concurrent = FALSE /\ Boot("blocking")

SpecAcc == InitAcc /\ [][NextAcc]_vars

\* ---- simple_chardev.c: one open file, one thread in device_read and one in
\* ---- device_write; the driver takes no lock

\* the lengths read() is called with, and those write() is called with
ReadLens == {1, BUFFER_SIZE}
WriteLens == 0..(BUFFER_SIZE + 1)

\* the user buffers handed to write(): non-NUL bytes
UserBuffers ==
    { [k \in 1..(BUFFER_SIZE + 1) |-> 1 + (k % 2)],
      [k \in 1..(BUFFER_SIZE + 1) |-> 1] }

\* what the memory behind device_buffer may hold
JunkBytes == {0, ByteBase - 1}

Min(a, b) == IF a <= b THEN a ELSE b

\* a call may be entered: the file is open and, unless calls run
\* concurrently, the other thread is in no call
MayEnter(other) == opened /\ (concurrent \/ other = "idle")

\* device_open: a new struct file, position 0
device_open ==
    /\ ~opened /\ r_pc = "idle" /\ w_pc = "idle"
    /\ opened' = TRUE
    /\ offset' = 0
    /\ UNCHANGED <<kvars, dvars, gvars, device_buffer, buffer_size, concurrent,
                   r_pc, read_len, r_seen, bytes_to_read, r_ret, r_out, w_pc,
                   write_len, user_data, bytes_to_write, w_ret>>

\* device_release
device_release ==
    /\ opened /\ r_pc = "idle" /\ w_pc = "idle"
    /\ opened' = FALSE
    /\ UNCHANGED <<kvars, dvars, gvars, device_buffer, buffer_size, offset,
                   concurrent, r_pc, read_len, r_seen, bytes_to_read, r_ret,
                   r_out, w_pc, write_len, user_data, bytes_to_write, w_ret>>

\* device_read is entered: if (*offset >= buffer_size) return 0;
device_read_check ==
    /\ r_pc = "idle"
    /\ MayEnter(w_pc)
    /\ \E len \in ReadLens : read_len' = len
    /\ r_seen' = buffer_size
    /\ bytes_to_read' = 0
    /\ r_out' = <<>>
    /\ r_ret' = 0
    /\ r_pc' = IF offset >= buffer_size THEN "idle" ELSE "min"
    /\ UNCHANGED <<kvars, dvars, gvars, device_buffer, buffer_size, opened,
                   offset, concurrent, w_pc, write_len, user_data,
                   bytes_to_write, w_ret>>

\* bytes_to_read = min(len, buffer_size - (size_t)*offset): buffer_size is not
\* volatile and no lock is held, so the value subtracted from is the one
\* loaded for the check or one loaded again; the difference is a size_t
device_read_min ==
    /\ r_pc = "min"
    /\ \E bs \in {r_seen, buffer_size} :
         /\ r_seen' = bs
         /\ bytes_to_read' = Min(read_len, U64(bs - offset))
    /\ r_pc' = "copy"
    /\ UNCHANGED <<kvars, dvars, gvars, device_buffer, buffer_size, opened,
                   offset, concurrent, read_len, r_ret, r_out, w_pc, write_len,
                   user_data, bytes_to_write, w_ret>>

\* the bytes of device_buffer that copy_to_user reads, and how many bytes it
\* reads behind the end of the array
InBounds(off, cnt) == SubSeq(device_buffer, off + 1, Min(off + cnt, BUFFER_SIZE))
Overrun(off, cnt) == IF off + cnt > BUFFER_SIZE THEN off + cnt - BUFFER_SIZE ELSE 0

\* copy_to_user(buffer, device_buffer + *offset, bytes_to_read): it fails and
\* -EFAULT is returned, or the bytes are delivered, *offset is advanced and
\* bytes_to_read is returned. Bytes read behind the end of device_buffer are
\* whatever lies there, or the access kills the thread.
device_read_copy ==
    /\ r_pc = "copy"
    /\ \/ /\ bytes_to_read > 0
          /\ r_ret' = -EFAULT
          /\ r_pc' = "idle"
          /\ UNCHANGED <<r_out, offset>>
       \/ /\ \E junk \in [1..Overrun(offset, bytes_to_read) -> JunkBytes] :
               r_out' = InBounds(offset, bytes_to_read) \o junk
          /\ offset' = offset + bytes_to_read
          /\ r_ret' = bytes_to_read
          /\ r_pc' = "idle"
       \/ /\ Overrun(offset, bytes_to_read) > 0
          /\ r_pc' = "oops"
          /\ UNCHANGED <<r_out, offset, r_ret>>
    /\ UNCHANGED <<kvars, dvars, gvars, device_buffer, buffer_size, opened,
                   concurrent, read_len, r_seen, bytes_to_read, w_pc,
                   write_len, user_data, bytes_to_write, w_ret>>

\* device_buffer after copy_from_user of cnt bytes of which only the first
\* `copied` arrived: the rest of the cnt bytes is zeroed
copy_from_user(data, cnt, copied) ==
    [k \in 1..BUFFER_SIZE |->
        IF k <= copied THEN data[k]
        ELSE IF k <= cnt THEN 0 ELSE device_buffer[k]]

\* device_write is entered: bytes_to_write = min(len, BUFFER_SIZE - 1);
\* if (copy_from_user(device_buffer, buffer, bytes_to_write)) return -EFAULT;
device_write_copy ==
    /\ w_pc = "idle"
    /\ MayEnter(r_pc)
    /\ \E len \in WriteLens, data \in UserBuffers :
         LET cnt == Min(len, BUFFER_SIZE - 1) IN
         /\ write_len' = len
         /\ user_data' = data
         /\ bytes_to_write' = cnt
         /\ \/ /\ device_buffer' = copy_from_user(data, cnt, cnt)
               /\ w_pc' = "nul"
               /\ UNCHANGED w_ret
            \/ /\ \E copied \in 0..(cnt - 1) :
                    device_buffer' = copy_from_user(data, cnt, copied)
               /\ w_ret' = -EFAULT
               /\ w_pc' = "idle"
    /\ UNCHANGED <<kvars, dvars, gvars, buffer_size, opened, offset,
                   concurrent, r_pc, read_len, r_seen, bytes_to_read, r_ret,
                   r_out>>

\* device_buffer[bytes_to_write] = '\0';
device_write_nul ==
    /\ w_pc = "nul"
    /\ device_buffer' = [device_buffer EXCEPT ![bytes_to_write + 1] = 0]
    /\ w_pc' = "size"
    /\ UNCHANGED <<kvars, dvars, gvars, buffer_size, opened, offset,
                   concurrent, r_pc, read_len, r_seen, bytes_to_read, r_ret,
                   r_out, write_len, user_data, bytes_to_write, w_ret>>

\* buffer_size = bytes_to_write; return bytes_to_write;
device_write_size ==
    /\ w_pc = "size"
    /\ buffer_size' = bytes_to_write
    /\ w_ret' = bytes_to_write
    /\ w_pc' = "idle"
    /\ UNCHANGED <<kvars, dvars, gvars, device_buffer, opened, offset,
                   concurrent, r_pc, read_len, r_seen, bytes_to_read, r_ret,
                   r_out, write_len, user_data, bytes_to_write>>

NextChar ==
    \/ device_open
    \/ device_release
    \/ device_read_check
    \/ device_read_min
    \/ device_read_copy
    \/ device_write_copy
    \/ device_write_nul
    \/ device_write_size

\* the driver used by one thread at a time
InitCharSeq == concurrent = FALSE /\ Boot("blocking")

SpecCharSeq == InitCharSeq /\ [][NextChar]_vars

\* the driver used by a reading and a writing thread at the same time
InitCharConc == concurrent = TRUE /\ Boot("blocking")

SpecCharConc == InitCharConc /\ [][NextChar]_vars

Spec == Init /\ [][Next]_vars

\* the specification with the fairness the scheduling gives: the process's own
\* steps are taken when they can be; signals, datagrams and receive errors
\* come from outside and need never come
ProgramStep ==
    \/ main_initialize
    \/ burst_main_initialize
    \/ LoopCheck
    \/ CallRecvfrom
    \/ RecvInterrupted
    \/ ContinueOnEintr
    \/ BreakOnError
    \/ ProcessDatagram
    \/ FinalStatistics
    \/ lcore_main_check
    \/ rte_eth_rx_burst
    \/ lcore_main_frame
    \/ main_shutdown

FairSpec == Spec /\ WF_vars(ProgramStep)

\* ---- claims

Cancelled ==
    \/ variant = "blocking" /\ running = 0
    \/ variant = "burst" /\ force_quit

\* the cumulative packet and byte counts of the running variant
PacketCount ==
    IF variant = "blocking" THEN stats.packets_received ELSE rx_stats.packets
ByteCount ==
    IF variant = "blocking" THEN stats.bytes_received ELSE rx_stats.bytes

\* C1: the exit status is 0 when the receive loop ended on cancellation and
\* non-zero when it ended on a fatal recvfrom error.
C1_ExitStatus ==
    (variant = "blocking" /\ pc = "done") =>
        /\ ~fatal => exit_status = 0
        /\ fatal => exit_status # 0

\* C2: no report divides by a zero packet count: no division by zero is ever
\* executed, and a report of zero packets shows the average 0 (or, as -1
\* stands for, leaves the average out).
C2_NoDivisionByZero ==
    /\ ~div_by_zero
    /\ (out.kind # "none" /\ out.packets = 0) => out.avg \in {0, -1}

\* C3: after the flag is set at most one more acquisition is begun, and a
\* process that was cancelled and has ended printed exactly one final report
\* carrying the cumulative packet and byte counts.
C3_CancelThenOneFinalReport ==
    /\ acq_after_cancel <= 1
    /\ n_final <= 1
    /\ (Cancelled /\ pc \in {"done", "crashed"}) =>
          /\ n_final = 1
          /\ out.kind = "final"
          /\ out.packets = PacketCount
          /\ out.bytes = ByteCount

\* C4: once the cancellation flag of the blocking receiver is set, the process
\* eventually leaves the receive loop and terminates.
C4_CancelTerminates ==
    (variant = "blocking" /\ running = 0) ~> ~Alive

\* the step of the blocking receiver that processes the datagram just received
ProcessesDatagram == variant = "blocking" /\ pc = "ret" /\ n >= 0 /\ pc' # "ret"

\* the step of the polled-burst receiver that handles frame i of the burst
HandlesFrame == variant = "burst" /\ pc = "proc" /\ i' # i
CurrentFrame == bufs[i + 1].frame

IsUdpFrame(f) == f.ether_type = "IPV4" /\ f.next_proto_id = "UDP"

\* the first TsBytes bytes of a payload as an unsigned big-endian integer
BigEndianValue(data) ==
    LET sum[k \in 0..TsBytes] ==
            IF k = 0 THEN 0
            ELSE sum[k - 1] + data[k] * (ByteBase ^ (TsBytes - k))
    IN  sum[TsBytes]

C6_MbufsFreedExactlyOnce ==
    variant = "burst" =>
        /\ ~double_free
        /\ pc = "proc" => pool = Mbufs \ {bufs[j].m : j \in (i + 1)..nb_rx}
        /\ pc # "proc" => pool = Mbufs

\* the loop was left after a full burst that held a frame that is not UDP, and
\* the flag was set after that burst had been acquired
C6_Witness ==
    /\ variant = "burst" /\ pc = "stats" /\ force_quit
    /\ acq_after_cancel = 0
    /\ nb_rx = MaxBurst /\ i = nb_rx
    /\ ~IsUdpFrame(bufs[1].frame)
    /\ pool = Mbufs

RECURSIVE SumLengths(_)
SumLengths(samples) ==
    IF samples = <<>> THEN 0 ELSE Head(samples)[1] + SumLengths(Tail(samples))

RECURSIVE SumLatencies(_)
SumLatencies(samples) ==
    IF samples = <<>> THEN 0 ELSE Head(samples)[2] + SumLatencies(Tail(samples))

LatenciesOf(samples) == {samples[k][2] : k \in 1..Len(samples)}
Smallest(S) == CHOOSE x \in S : \A y \in S : x <= y
Largest(S) == CHOOSE x \in S : \A y \in S : x >= y

\* C8: after a non-empty sequence of valid samples was fed to a zeroed
\* accumulator, the packet count is the number of samples, the byte count the
\* sum of their lengths, min and max the smallest and largest latency fed, the
\* sum the sum of the latencies (mod 2^64) and the reported average the sum
\* divided by the count.
C8_Accumulator ==
    fed # <<>> =>
        /\ stats.packets_received = Len(fed)
        /\ stats.bytes_received = SumLengths(fed)
        /\ stats.min_latency_ns = Smallest(LatenciesOf(fed))
        /\ stats.max_latency_ns = Largest(LatenciesOf(fed))
        /\ stats.total_latency_ns = U64(SumLatencies(fed))
        /\ final_report(stats).avg = U64(SumLatencies(fed)) \div Len(fed)

\* latencies 50, 10, 90 with length 40: count 3, min 10, max 90, average 50
C8_Witness ==
    /\ fed = << <<40, 50>>, <<40, 10>>, <<40, 90>> >>
    /\ stats.packets_received = 3
    /\ stats.bytes_received = 120
    /\ stats.min_latency_ns = 10
    /\ stats.max_latency_ns = 90
    /\ final_report(stats).avg = 50

\* C9 (as amended): packet count, byte count and max never decrease and min
\* never increases once a message was counted, so the statistics are never
\* reset; the latency sum decreases only when adding the latency of the
\* message being processed carries it past 2^64.
C9_MonotoneUpToWrap ==
    [][ /\ stats'.packets_received >= stats.packets_received
        /\ stats'.bytes_received >= stats.bytes_received
        /\ stats'.max_latency_ns >= stats.max_latency_ns
        /\ stats.packets_received >= 1 =>
               stats'.min_latency_ns <= stats.min_latency_ns
        /\ stats'.total_latency_ns < stats.total_latency_ns =>
               /\ ProcessesDatagram /\ n >= MinMsgLen
               /\ stats'.total_latency_ns =
                      stats.total_latency_ns
                      + U64(recv_time' - BigEndianValue(buffer)) - Modulus
        /\ rx_stats'.packets >= rx_stats.packets
        /\ rx_stats'.bytes >= rx_stats.bytes
        /\ rx_stats'.total_latency_cycles < rx_stats.total_latency_cycles =>
               /\ HandlesFrame
               /\ rx_stats'.total_latency_cycles =
                      rx_stats.total_latency_cycles
                      + U64(end_cycles' - start_cycles') - Modulus
      ]_vars

\* C9 as claimed: packet count, byte count, latency sum and max never
\* decrease and min never increases once it is defined.
C9_AllMonotone ==
    [][ /\ stats'.packets_received >= stats.packets_received
        /\ stats'.bytes_received >= stats.bytes_received
        /\ stats'.total_latency_ns >= stats.total_latency_ns
        /\ stats'.max_latency_ns >= stats.max_latency_ns
        /\ stats.packets_received >= 1 =>
               stats'.min_latency_ns <= stats.min_latency_ns
        /\ rx_stats'.packets >= rx_stats.packets
        /\ rx_stats'.bytes >= rx_stats.bytes
        /\ rx_stats'.total_latency_cycles >= rx_stats.total_latency_cycles
      ]_vars

\* several messages were counted, min went down from the first latency, and
\* the sum is below the largest latency added: it wrapped
C9_Witness ==
    /\ variant = "blocking"
    /\ stats.packets_received >= 2
    /\ stats.min_latency_ns < stats.max_latency_ns
    /\ stats.total_latency_ns < stats.max_latency_ns

\* C10: in the polled-burst receiver a frame that is not IPv4, or is IPv4 but
\* not UDP, leaves packet count, byte count and latency sum unchanged wherever
\* it stands in the burst, and the loop goes on to the next frame: the burst is
\* left only after its last frame.
C10_NonTargetFrame ==
    [][ /\ (HandlesFrame /\ ~IsUdpFrame(CurrentFrame)) =>
              /\ rx_stats'.packets = rx_stats.packets
              /\ rx_stats'.bytes = rx_stats.bytes
              /\ rx_stats'.total_latency_cycles = rx_stats.total_latency_cycles
              /\ i' = i + 1
              /\ i + 1 < nb_rx => pc' = "proc"
        /\ (variant = "burst" /\ pc = "proc" /\ pc' # "proc") => i' = nb_rx
      ]_vars

\* a burst of a frame that is not UDP followed by a UDP frame was handled
\* whole: only the second frame was counted
C10_Witness ==
    /\ variant = "burst" /\ pc = "loop"
    /\ nb_rx = 2 /\ i = 2
    /\ ~IsUdpFrame(bufs[1].frame)
    /\ IsUdpFrame(bufs[2].frame)
    /\ rx_stats.packets = 1
    /\ rx_stats.bytes = bufs[2].frame.pkt_len

\* C11: in the polled-burst receiver a poll that returns no frame does not end
\* the loop and changes neither the error counter nor any other statistic:
\* control goes back to the test of the flag, which comes before the next poll.
C11_EmptyBurst ==
    [][ /\ (variant = "burst" /\ pc = "burst" /\ pc' # "burst" /\ nb_rx' = 0) =>
            /\ pc' = "loop"
            /\ rx_stats' = rx_stats
            /\ out' = out
            /\ n_final' = n_final
            /\ exit_status' = exit_status
            /\ pool' = pool
        /\ (variant = "burst" /\ pc # "burst" /\ pc' = "burst") =>
            pc = "loop" /\ ~force_quit
      ]_vars

\* an empty poll came back after earlier frames had been counted, and the loop
\* is at the test of the flag again
C11_Witness ==
    /\ variant = "burst" /\ pc = "loop" /\ nb_rx = 0
    /\ rx_stats.packets = 1 /\ rx_stats.errors = 0
    /\ ~force_quit

\* C12: when a step of initialisation fails, the process is terminated with a
\* non-zero exit status, and it stays so: nothing was acquired (no recvfrom
\* was entered, no mbuf left the pool), no statistic was written, and no
\* periodic or final report was printed.
C12_InitFailure ==
    init_error # "none" =>
        /\ pc = "init_failed"
        /\ exit_status > 0
        /\ stats = struct_stats_zero /\ rx_stats = rx_stats_zero
        /\ n = 0 /\ errno = "none" /\ buffer = ZeroBytes
        /\ bufs = <<>> /\ nb_rx = 0 /\ pool = Mbufs
        /\ acq_after_cancel = 0
        /\ out.kind = "none" /\ n_periodic = 0 /\ n_final = 0

\* the multicast join, the last step of initialisation, failed
C12_Witness ==
    /\ variant = "blocking"
    /\ init_error = "setsockopt IP_ADD_MEMBERSHIP"
    /\ pc = "init_failed" /\ exit_status = 1

\* C13: in the blocking receiver, the step taken after recvfrom returned -1
\* writes no statistic and prints no report; with errno EINTR it goes to the
\* test of the flag at the top of the loop and does not mark the run as failed
\* or ended, with any other errno it leaves the loop. From the top of the loop
\* the receiver waits again only if the flag is still set.
C13_InterruptedWait ==
    [][ /\ (variant = "blocking" /\ pc = "ret" /\ n < 0 /\ pc' # pc) =>
            /\ stats' = stats /\ out' = out
            /\ n_periodic' = n_periodic /\ n_final' = n_final
            /\ last_report_time' = last_report_time
            /\ IF errno = EINTR
               THEN /\ pc' = "loop"
                    /\ fatal' = fatal /\ exit_status' = exit_status
               ELSE pc' = "final" /\ fatal'
        /\ (variant = "blocking" /\ pc = "loop" /\ pc' # pc) =>
            pc' = IF running # 0 THEN "call" ELSE "final"
      ]_vars

\* an interrupted wait brought the receiver, which had counted a message, back
\* to the top of the loop
C13_Witness ==
    /\ variant = "blocking" /\ pc = "loop"
    /\ n = -1 /\ errno = EINTR
    /\ ~fatal /\ stats.packets_received = 1

\* the step of the blocking receiver that handles a received datagram: the
\* clock is read, the datagram is processed and the reporter is evaluated
ReporterStep == variant = "blocking" /\ pc = "ret" /\ n >= 0 /\ pc' # pc

\* the current time minus the time of the last report is at least the interval
IntervalElapsed == clock - last_report_time >= report_interval_ns

\* C14: at an iteration that reaches the reporter, a periodic report is printed
\* exactly when the time read minus the time of the last report is at least
\* the interval; the report shows the cumulative counters, which it leaves as
\* the processing of the datagram left them, and the time of the last report
\* becomes the time read; a report never shows fewer packets than the one
\* before, and the time of the last report moves by at least the interval.
C14_PeriodicReport ==
    [][ ReporterStep =>
          /\ (n_periodic' = n_periodic + 1) <=> IntervalElapsed
          /\ n_periodic' \in {n_periodic, n_periodic + 1}
          /\ stats' = process_order_book(buffer, n, clock, stats)
          /\ n_periodic' = n_periodic + 1 =>
                /\ out'.kind = "periodic"
                /\ out'.packets = stats'.packets_received
                /\ out'.min = stats'.min_latency_ns
                /\ out'.max = stats'.max_latency_ns
                /\ last_report_time' = clock
                /\ last_report_time' - last_report_time >= report_interval_ns
                /\ out.kind = "periodic" => out'.packets >= out.packets
          /\ n_periodic' = n_periodic =>
                out' = out /\ last_report_time' = last_report_time
      ]_vars

\* the end of an iteration of the receive loop of either variant: control is
\* back at the test of the flag
IterationEnds == pc # "init" /\ pc # "loop" /\ pc' = "loop"

Draining == pc \in {"final", "stats"}

\* C16: once the receive loop is left, by cancellation or by a fatal receive
\* error, the next step ends the process: it acquires nothing and writes no
\* statistic, prints the final report, which shows the cumulative packet and
\* byte counts, and releases the socket or the port, which was held until
\* then. A process that ended this way printed one final report and released
\* the resource once, holds no mbuf, and takes no further step.
C16_Draining ==
    /\ [](Draining => IF variant = "blocking" THEN sockfd_open ELSE port_started)
    /\ [](pc = "done" =>
            /\ n_final = 1 /\ n_close = 1
            /\ ~sockfd_open /\ ~port_started
            /\ out.kind = "final"
            /\ out.packets = PacketCount /\ out.bytes = ByteCount
            /\ pool = Mbufs)
    /\ [][ /\ (Draining /\ pc' # pc) =>
                /\ pc' = "done"
                /\ stats' = stats /\ rx_stats' = rx_stats
                /\ n' = n /\ buffer' = buffer /\ bufs' = bufs /\ pool' = pool
                /\ acq_after_cancel' = acq_after_cancel
                /\ n_periodic' = n_periodic
                /\ n_final' = n_final + 1 /\ n_close' = n_close + 1
           /\ pc # "done"
         ]_vars

\* the loop was left by a fatal receive error after one message had been
\* counted, and the process has ended
C16_Witness ==
    /\ variant = "blocking" /\ pc = "done" /\ fatal
    /\ stats.packets_received = 1
    /\ n_final = 1 /\ n_close = 1 /\ ~sockfd_open

\* the average a report of the blocking receiver shows: sum / count
ReportedAverage == stats.total_latency_ns \div stats.packets_received

\* C17 as stated: in the blocking receiver with at least one message counted,
\* min <= max and the reported average lies between min and max, wrapped
\* latencies included.
C17_AverageBetweenMinAndMax ==
    stats.packets_received >= 1 =>
        /\ stats.min_latency_ns <= stats.max_latency_ns
        /\ stats.min_latency_ns <= ReportedAverage
        /\ ReportedAverage <= stats.max_latency_ns

\* C17, amended: with at least one message counted, min <= max; the reported
\* average lies between min and max as long as the latencies counted add up
\* to less than 2^64, and never exceeds max; when their sum has wrapped, the
\* average is computed from the wrapped sum and may lie below min.
C17_AverageBoundedUnlessWrapped ==
    stats.packets_received >= 1 =>
        /\ stats.min_latency_ns <= stats.max_latency_ns
        /\ ReportedAverage <= stats.max_latency_ns
        /\ SumLatencies(fed) < Modulus =>
              stats.min_latency_ns <= ReportedAverage

\* latencies 10 and 90 were counted: the average 50 lies strictly between them
C17_Witness ==
    /\ fed = << <<32, 10>>, <<32, 90>> >>
    /\ stats.packets_received = 2
    /\ stats.min_latency_ns = 10 /\ stats.max_latency_ns = 90
    /\ ReportedAverage = 50

\* C18: whatever a concurrent device_write does, a device_read that is about
\* to copy out has not taken buffer_size - offset below zero, copies at most
\* the bytes between its offset and the buffer_size it loaded, and copies
\* only bytes of device_buffer.
C18_ReadInBounds ==
    r_pc = "copy" =>
        /\ r_seen >= offset
        /\ bytes_to_read <= r_seen - offset
        /\ offset + bytes_to_read <= BUFFER_SIZE

\* no call of the driver is in progress
Quiescent == r_pc = "idle" /\ w_pc = "idle"

\* between calls the content is shorter than the array and ends in a NUL
TerminatedContent ==
    Quiescent =>
        buffer_size <= BUFFER_SIZE - 1 /\ device_buffer[buffer_size + 1] = 0

\* what the calls of the driver return and leave behind when they are made
\* one at a time: a write that succeeds ignores the position, stores
\* min(len, BUFFER_SIZE - 1) bytes from index 0 and returns their number; a
\* read at or behind the end returns 0; a read that succeeds returns the bytes
\* from the position on and advances it, and from position 0 with room for
\* the whole content it returns the bytes of the last successful write; a
\* call whose user copy fails returns -EFAULT and changes neither buffer_size
\* nor the position.
SequentialCalls ==
    [][ /\ (w_pc = "size" /\ w_pc' = "idle") =>
              /\ w_ret' = Min(write_len, BUFFER_SIZE - 1)
              /\ buffer_size' = w_ret'
              /\ \A k \in 1..w_ret' : device_buffer'[k] = user_data[k]
              /\ offset' = offset
        /\ (w_pc = "idle" /\ w_pc' = "idle" /\ w_ret' # w_ret) =>
              /\ w_ret' = -EFAULT
              /\ buffer_size' = buffer_size /\ offset' = offset
        /\ (r_pc = "idle" /\ r_pc' = "min") => offset < buffer_size
        /\ (r_pc = "idle" /\ r_pc' = "idle" /\ opened /\ opened') =>
              r_ret' \in {r_ret, 0} /\ offset' = offset
        /\ (r_pc = "copy" /\ r_pc' = "idle") =>
              IF r_ret' >= 0
              THEN /\ r_ret' = Min(read_len, buffer_size - offset)
                   /\ r_out' = SubSeq(device_buffer, offset + 1, offset + r_ret')
                   /\ offset' = offset + r_ret'
                   /\ (offset = 0 /\ read_len >= buffer_size /\ w_ret >= 0) =>
                         /\ r_out' = SubSeq(user_data, 1, w_ret)
                         /\ offset' >= buffer_size
              ELSE /\ r_ret' = -EFAULT
                   /\ buffer_size' = buffer_size /\ offset' = offset
      ]_vars

\* C19: after any sequence of opens, reads, writes and releases made one at a
\* time, buffer_size <= BUFFER_SIZE - 1 and device_buffer[buffer_size] is NUL;
\* a successful write ignores the position and stores and returns
\* min(len, BUFFER_SIZE - 1) bytes, which a read from position 0 returns
\* before the next read returns 0; a call whose user copy fails returns
\* -EFAULT and leaves buffer_size and the position as they were.
C19_SequentialUse == []TerminatedContent /\ SequentialCalls
====
